---- MODULE Spec2Model ----
(***************************************************************************)
(* A model of server.py: the FastAPI routes /, /status, /info, /download,  *)
(* the background job do_download and the resolver get_quality_format.     *)
(*                                                                         *)
(* Python values that may be None (an absent query parameter, a dict key   *)
(* read with .get) are records [some, v]: some = FALSE is None.            *)
(***************************************************************************)
EXTENDS Naturals, Sequences, FiniteSets, Bags, TLC

VARIABLES
    download_folder,  \* the module global DOWNLOAD_FOLDER
    dir_exists,       \* filesystem: DOWNLOAD_FOLDER exists
    dir_creatable,    \* filesystem: os.makedirs(DOWNLOAD_FOLDER) is permitted
    cookie_exists,    \* filesystem: COOKIE_FILE exists
    meta_result,      \* what extract_info(url, download=False) returns or raises
    request,          \* the request the routing layer handled last
    response,         \* the response sent for it
    effects,          \* what handling it did: [handler, collab_invoked, task_added]
    served,           \* bag of the /download exchanges answered: [request, response]
    tasks,            \* bag of the background tasks added: one record per do_download call
    resolved          \* direct calls of get_quality_format: [token, expr]

vars == <<download_folder, dir_exists, dir_creatable, cookie_exists, meta_result,
          request, response, effects, served, tasks, resolved>>

(***************************** bounds **************************************)
MaxTasks == 2
MaxFormats == 3

(************************ optional (None-able) values **********************)
NoneStr == [some |-> FALSE, v |-> ""]
SomeStr(s) == [some |-> TRUE, v |-> s]
NoneInt == [some |-> FALSE, v |-> 0]
SomeInt(n) == [some |-> TRUE, v |-> n]

\* Python truthiness of an int-or-None value: None and 0 are falsy.
Truthy(h) == h.some /\ h.v # 0

(***************************** configuration ******************************)
Homes == {"/root", ""}

\* os.path.expanduser("~/Downloads/YouTube") with HOME = home
ExpandUser(home) == home \o "/Downloads/YouTube"

COOKIE_FILE == "./cookies.txt"

(***************************** get_quality_format **************************)
Expr2160 == "bestvideo[height<=2160][ext=mp4]+bestaudio[ext=m4a]/best[height<=2160][ext=mp4]/best"
Expr1080 == "bestvideo[height<=1080][ext=mp4]+bestaudio[ext=m4a]/best[height<=1080][ext=mp4]/best"
Expr720 == "bestvideo[height<=720][ext=mp4]+bestaudio[ext=m4a]/best[height<=720][ext=mp4]/best"
Expr480 == "bestvideo[height<=480][ext=mp4]+bestaudio[ext=m4a]/best[height<=480][ext=mp4]/best"

quality_formats ==
    [k \in {"2160", "1080", "720", "480"} |->
        IF k = "2160" THEN Expr2160
        ELSE IF k = "1080" THEN Expr1080
        ELSE IF k = "720" THEN Expr720
        ELSE Expr480]

\* faulty variant: the fallback is the best quality instead of "1080"
get_quality_format_best(quality) ==
    IF quality.some /\ quality.v \in DOMAIN quality_formats
    THEN quality_formats[quality.v]
    ELSE quality_formats["2160"]

\* quality_formats.get(quality, quality_formats["1080"])
get_quality_format(quality) ==
    IF quality.some /\ quality.v \in DOMAIN quality_formats
    THEN quality_formats[quality.v]
    ELSE quality_formats["1080"]

(***************************** requests ************************************)
URLs == {"https://youtu.be/a", "not-a-url"}
QualityParams == {NoneStr, SomeStr("720"), SomeStr("4k")}
Routes == {"/", "/status", "/info", "/download"}

NoRequest == [route |-> "", url |-> NoneStr, quality |-> NoneStr]
NoResponse == [status |-> 0, body |-> [success |-> FALSE]]
NoEffects == [handler |-> "", collab_invoked |-> FALSE, task_added |-> FALSE]

\* faulty variant: url declared with a default, Query(None), so nothing is required
RequiredMissing_optional(req) == FALSE

\* url: str = Query(...) on /info and /download: the parameter is required
RequiredMissing(req) ==
    /\ req.route \in {"/info", "/download"}
    /\ ~req.url.some

\* the routing layer's answer to a request that fails validation
ValidationError == [status |-> 422, body |-> [success |-> FALSE, detail |-> "Field required"]]

\* faulty variant: the default of the quality parameter is "720"
QualityOrDefault_720(q) == IF q.some THEN q.v ELSE "720"

\* quality: str = Query("1080", ...)
QualityOrDefault(q) == IF q.some THEN q.v ELSE "1080"

(***************************** / and /status *******************************)
root_body ==
    [success |-> TRUE,
     message |-> "YouTube Downloader API is running!",
     endpoints |-> [status |-> "Check server status",
                    info |-> "Get video info",
                    download |-> "Download video"]]

\* faulty variant: the folder is reported only when it exists on disk
get_status_body_checked ==
    [success |-> dir_exists,
     message |-> "Server is running",
     download_folder |-> IF dir_exists THEN download_folder ELSE ""]

get_status_body ==
    [success |-> TRUE,
     message |-> "Server is running",
     download_folder |-> download_folder]

(***************************** /info ***************************************)
Heights == {NoneInt, SomeInt(0), SomeInt(360), SomeInt(720)}
Exts == {SomeStr("mp4"), SomeStr("webm")}
FormatIds == {NoneStr, SomeStr("137")}
FormatEntries == [height : Heights, ext : Exts, format_id : FormatIds]

SeqsUpTo(S, n) == UNION {[1..k -> S] : k \in 0..n}

\* formats: some = FALSE is an info dict without the "formats" key
Infos ==
    [title : {NoneStr, SomeStr("A video")},
     channel : {NoneStr},
     duration : {NoneInt, SomeInt(212)},
     thumbnail : {NoneStr},
     formats : [some : {TRUE}, v : SeqsUpTo(FormatEntries, MaxFormats)]
               \cup {[some |-> FALSE, v |-> <<>>]}]

ErrStrings == {"ERROR: Video unavailable", ""}

NoInfo ==
    [title |-> NoneStr, channel |-> NoneStr, duration |-> NoneInt,
     thumbnail |-> NoneStr, formats |-> [some |-> FALSE, v |-> <<>>]]

\* outcomes of ydl.extract_info(url, download=False): an info dict, or an
\* exception e with str(e) = err
MetaOutcomes ==
    [raises : {FALSE}, err : {""}, info : Infos]
    \cup [raises : {TRUE}, err : ErrStrings, info : {NoInfo}]

\* faulty variant: the filter tests the key's presence (is not None) instead of its truth
KeepFormat_present(f) == f.height.some /\ f.ext = SomeStr("mp4")

\* if f.get("height") and f.get("ext") == "mp4"
KeepFormat(f) == Truthy(f.height) /\ f.ext = SomeStr("mp4")

\* the loop over info.get("formats", []) that appends to formats
RECURSIVE FilterFormats(_)
FilterFormats(fs) ==
    IF fs = <<>> THEN <<>>
    ELSE LET f == Head(fs)
             rest == FilterFormats(Tail(fs))
         IN IF KeepFormat(f)
            THEN <<[height |-> f.height, format_id |-> f.format_id]>> \o rest
            ELSE rest

OrStr(x, d) == IF x.some THEN x.v ELSE d
OrInt(x, d) == IF x.some THEN x.v ELSE d

\* faulty variant: the exception is not converted, the framework answers 500
get_video_info_raising(outcome) ==
    IF outcome.raises
    THEN [status |-> 500, body |-> [success |-> FALSE, message |-> "Internal Server Error"]]
    ELSE [status |-> 200,
          body |-> [success |-> TRUE,
                    title |-> OrStr(outcome.info.title, "Unknown"),
                    channel |-> OrStr(outcome.info.channel, "Unknown"),
                    duration |-> OrInt(outcome.info.duration, 0),
                    thumbnail |-> OrStr(outcome.info.thumbnail, ""),
                    formats |-> FilterFormats(outcome.info.formats.v)]]

\* the body of get_video_info, given what the collaborator did
get_video_info(outcome) ==
    IF outcome.raises
    THEN [status |-> 200, body |-> [success |-> FALSE, message |-> outcome.err]]
    ELSE [status |-> 200,
          body |-> [success |-> TRUE,
                    title |-> OrStr(outcome.info.title, "Unknown"),
                    channel |-> OrStr(outcome.info.channel, "Unknown"),
                    duration |-> OrInt(outcome.info.duration, 0),
                    thumbnail |-> OrStr(outcome.info.thumbnail, ""),
                    formats |-> FilterFormats(outcome.info.formats.v)]]

(***************************** /download ***********************************)
NoOpts == [format |-> "", cookiefile |-> NoneStr]

\* faulty variant: the handler calls do_download(url, quality) itself and answers
\* when it has returned
NewTask_inline(url, quality) ==
    [url |-> url, quality |-> quality, pc |-> "returned", exc |-> "",
     console |-> "downloaded",
     opts |-> [format |-> get_quality_format(SomeStr(quality)), cookiefile |-> NoneStr]]

\* a do_download(url, quality) call that has been added and has not started
NewTask(url, quality) ==
    [url |-> url, quality |-> quality, pc |-> "scheduled", exc |-> "",
     console |-> "", opts |-> NoOpts]

\* faulty variant: a url that already has a task is not scheduled again
add_task_dedup(ts, url, quality) ==
    IF \E t \in BagToSet(ts) : t.url = url
    THEN ts
    ELSE ts (+) SetToBag({NewTask(url, quality)})

\* background_tasks.add_task(do_download, url, quality): every request has a
\* BackgroundTasks object of its own, so the tasks in flight form a bag
add_task(ts, url, quality) == ts (+) SetToBag({NewTask(url, quality)})

download_video_body ==
    [success |-> TRUE,
     message |-> "Download started! Check your Downloads/YouTube folder."]

(***************************** do_download *********************************)
\* os.makedirs(DOWNLOAD_FOLDER, exist_ok=True), outside the try block
makedirs(task, exists, creatable) ==
    IF exists \/ creatable
    THEN [task EXCEPT !.pc = "dir_ok"]
    ELSE [task EXCEPT !.pc = "raised", !.exc = "PermissionError"]

\* outcomes of ydl.extract_info(url, download=True): it returns, or raises
\* DownloadError (network, extraction, unsupported URL, merge) or OSError (disk full)
DownloadOutcomes == {"ok", "DownloadError", "OSError"}

ydl_opts(task, cookie) ==
    [format |-> get_quality_format(SomeStr(task.quality)),
     cookiefile |-> IF cookie THEN SomeStr(COOKIE_FILE) ELSE NoneStr]

\* faulty variant: except yt_dlp.utils.DownloadError, so any other exception escapes
extract_and_log_narrow(task, outcome, cookie) ==
    IF outcome = "ok"
    THEN [task EXCEPT !.pc = "returned", !.console = "downloaded",
                      !.opts = ydl_opts(task, cookie)]
    ELSE IF outcome = "DownloadError"
    THEN [task EXCEPT !.pc = "returned", !.exc = outcome, !.console = "error",
                      !.opts = ydl_opts(task, cookie)]
    ELSE [task EXCEPT !.pc = "raised", !.exc = outcome,
                      !.opts = ydl_opts(task, cookie)]

\* the options bundle, the cookie check and the try/except around extract_info
extract_and_log(task, outcome, cookie) ==
    IF outcome = "ok"
    THEN [task EXCEPT !.pc = "returned", !.console = "downloaded",
                      !.opts = ydl_opts(task, cookie)]
    ELSE [task EXCEPT !.pc = "returned", !.exc = outcome, !.console = "error",
                      !.opts = ydl_opts(task, cookie)]

(***************************** initial states ******************************)
\* what the collaborator answers to metadata queries while the server runs
SampleOutcomes ==
    {[raises |-> TRUE, err |-> "ERROR: Video unavailable", info |-> NoInfo],
     [raises |-> FALSE, err |-> "",
      info |-> [NoInfo EXCEPT !.formats =
                   [some |-> TRUE,
                    v |-> <<[height |-> SomeInt(720), ext |-> SomeStr("mp4"),
                             format_id |-> SomeStr("137")]>>]]]}

InitCommon ==
    /\ request = NoRequest
    /\ response = NoResponse
    /\ effects = NoEffects
    /\ served = EmptyBag
    /\ tasks = EmptyBag
    /\ resolved = {}

Init ==
    /\ InitCommon
    /\ \E home \in Homes : download_folder = ExpandUser(home)
    /\ dir_exists \in BOOLEAN
    /\ dir_creatable \in BOOLEAN
    /\ dir_exists => dir_creatable
    /\ cookie_exists \in BOOLEAN
    /\ meta_result \in SampleOutcomes

(***************************** actions *************************************)
fs == <<dir_exists, dir_creatable, cookie_exists>>

\* a request the routing layer rejects: no handler runs
Reject(route) ==
    LET req == [route |-> route, url |-> NoneStr, quality |-> NoneStr]
    IN /\ RequiredMissing(req)
       /\ request' = req
       /\ response' = ValidationError
       /\ effects' = [handler |-> "", collab_invoked |-> FALSE, task_added |-> FALSE]
       /\ UNCHANGED <<download_folder, fs, meta_result, served, tasks, resolved>>

Root ==
    /\ request' = [route |-> "/", url |-> NoneStr, quality |-> NoneStr]
    /\ response' = [status |-> 200, body |-> root_body]
    /\ effects' = [handler |-> "root", collab_invoked |-> FALSE, task_added |-> FALSE]
    /\ UNCHANGED <<download_folder, fs, meta_result, served, tasks, resolved>>

Status ==
    /\ request' = [route |-> "/status", url |-> NoneStr, quality |-> NoneStr]
    /\ response' = [status |-> 200, body |-> get_status_body]
    /\ effects' = [handler |-> "get_status", collab_invoked |-> FALSE, task_added |-> FALSE]
    /\ UNCHANGED <<download_folder, fs, meta_result, served, tasks, resolved>>

Info(u) ==
    LET req == [route |-> "/info", url |-> u, quality |-> NoneStr]
    IN /\ ~RequiredMissing(req)
       /\ request' = req
       /\ response' = get_video_info(meta_result)
       /\ effects' = [handler |-> "get_video_info", collab_invoked |-> TRUE,
                      task_added |-> FALSE]
       /\ UNCHANGED <<download_folder, fs, meta_result, served, tasks, resolved>>

Download(u, q) ==
    LET req == [route |-> "/download", url |-> u, quality |-> q]
        resp == [status |-> 200, body |-> download_video_body]
    IN /\ ~RequiredMissing(req)
       /\ BagCardinality(tasks) < MaxTasks
       /\ request' = req
       /\ tasks' = add_task(tasks, u.v, QualityOrDefault(q))
       /\ response' = resp
       /\ served' = served (+) SetToBag({[request |-> req, response |-> resp]})
       /\ effects' = [handler |-> "download_video", collab_invoked |-> FALSE,
                      task_added |-> TRUE]
       /\ UNCHANGED <<download_folder, fs, meta_result, resolved>>

\* one task t of the bag becomes t2
Step(t, t2) == tasks' = (tasks (-) SetToBag({t})) (+) SetToBag({t2})

\* a background task starts: os.makedirs
TaskMakeDirs(t) ==
    /\ t.pc = "scheduled"
    /\ Step(t, makedirs(t, dir_exists, dir_creatable))
    /\ dir_exists' = (dir_exists \/ dir_creatable)
    /\ UNCHANGED <<download_folder, dir_creatable, cookie_exists, meta_result,
                   request, response, effects, served, resolved>>

\* it builds ydl_opts, checks the cookie file and calls extract_info
TaskExtract(t, outcome) ==
    /\ t.pc = "dir_ok"
    /\ Step(t, extract_and_log(t, outcome, cookie_exists))
    /\ UNCHANGED <<download_folder, fs, meta_result, request, response, effects,
                   served, resolved>>

OptUrls == {NoneStr} \cup {SomeStr(x) : x \in URLs}

Next ==
    \/ \E route \in Routes : Reject(route)
    \/ Root
    \/ Status
    \/ \E u \in OptUrls : Info(u)
    \/ \E u \in OptUrls, q \in QualityParams : Download(u, q)
    \/ \E t \in BagToSet(tasks) : TaskMakeDirs(t)
    \/ \E t \in BagToSet(tasks), outcome \in DownloadOutcomes : TaskExtract(t, outcome)

Spec == Init /\ [][Next]_vars

(********************* the /info handler on every metadata *****************)
InfoInit ==
    /\ InitCommon
    /\ download_folder = ExpandUser("/root")
    /\ dir_exists = TRUE
    /\ dir_creatable = TRUE
    /\ cookie_exists = FALSE
    /\ meta_result \in MetaOutcomes

InfoNext ==
    \/ \E u \in OptUrls : Info(u)
    \/ Reject("/info")

InfoSpec == InfoInit /\ [][InfoNext]_vars

(********************* get_quality_format called directly ******************)
\* quality tokens: recognized ones, other strings, the empty string and None
Tokens ==
    {SomeStr("2160"), SomeStr("1080"), SomeStr("720"), SomeStr("480"),
     SomeStr(""), SomeStr("1080p"), SomeStr("best"), NoneStr}

Resolve(tok) ==
    /\ resolved' = resolved \cup {[token |-> tok, expr |-> get_quality_format(tok)]}
    /\ UNCHANGED <<download_folder, fs, meta_result, request, response, effects,
                   served, tasks>>

QInit ==
    /\ InitCommon
    /\ download_folder = ExpandUser("/root")
    /\ dir_exists = TRUE
    /\ dir_creatable = TRUE
    /\ cookie_exists = FALSE
    /\ meta_result \in {o \in SampleOutcomes : o.raises}

QNext == \E tok \in Tokens : Resolve(tok)

QSpec == QInit /\ [][QNext]_vars

(***************************** properties **********************************)
\* number of elements of bag B that satisfy P
Count(B, P(_)) == BagCardinality([e \in {x \in BagToSet(B) : P(x)} |-> B[e]])

IsAck(resp) ==
    /\ resp.status = 200
    /\ DOMAIN resp.body = {"success", "message"}
    /\ resp.body.success = TRUE
    /\ resp.body.message # ""

Failed(t) == t.pc = "raised" \/ (t.pc = "returned" /\ t.console = "error")

\* C1: every GET /download that carries a url is answered with the
\* acknowledgment {success: true, message}; the answer is given while the
\* task it scheduled has not started, and no later step of any task retracts or
\* changes an answer already given.
C1_AckWithoutWaiting ==
    /\ [](/\ (request.route = "/download" /\ request.url.some => IsAck(response))
          /\ \A s \in BagToSet(served) : s.request.url.some /\ IsAck(s.response))
    /\ [][/\ served' # served =>
               \E t \in BagToSet(tasks') :
                   /\ t.pc = "scheduled"
                   /\ CopiesIn(t, tasks') = CopiesIn(t, tasks) + 1
          /\ \A s \in BagToSet(served) : CopiesIn(s, served') >= CopiesIn(s, served)
          /\ (tasks' # tasks /\ served' = served) => response' = response]_vars

\* C1 witness: the last request was acknowledged and, afterwards, a task failed
\* while another has not even started
C1_Witness ==
    /\ request.route = "/download"
    /\ IsAck(response)
    /\ \E t \in BagToSet(tasks) : Failed(t)
    /\ \E t \in BagToSet(tasks) : t.pc = "scheduled"

\* C2: an exception raised by extract_info in a task is caught inside
\* do_download: the task has returned, the error is on the console, and every
\* acknowledgment given is still {success: true}.
C2_CollaboratorErrorSwallowed ==
    /\ \A t \in BagToSet(tasks) :
          t.exc \in {"DownloadError", "OSError"} =>
              t.pc = "returned" /\ t.console = "error"
    /\ (\E t \in BagToSet(tasks) : t.exc \in {"DownloadError", "OSError"}) =>
          \A s \in BagToSet(served) : IsAck(s.response)

C2_Witness ==
    /\ \E t \in BagToSet(tasks) : t.exc = "DownloadError" /\ t.pc = "returned"
    /\ \E t \in BagToSet(tasks) : t.exc = "OSError" /\ t.pc = "returned"
    /\ BagCardinality(served) = 2

\* C3: no exception escapes do_download, whatever step of the task the
\* filesystem fails at (the step that creates the output directory included).
C3_NoExceptionEscapes ==
    \A t \in BagToSet(tasks) : t.pc # "raised"

\* C4: every acknowledged /download has a task of its own (as many tasks as
\* acknowledgments, url by url, nothing deduplicated), and a step of one task
\* changes that task alone, keeping its url and quality.
C4_OneTaskPerRequest ==
    /\ [](/\ BagCardinality(tasks) = BagCardinality(served)
          /\ \A u \in URLs :
                Count(tasks, LAMBDA t : t.url = u)
                    = Count(served, LAMBDA s : s.request.url = SomeStr(u))
          /\ \A s \in BagToSet(served) : s.response.status = 200)
    /\ [][(tasks' # tasks /\ served' = served) =>
            \E t \in BagToSet(tasks), t2 \in BagToSet(tasks') :
                /\ tasks' = (tasks (-) SetToBag({t})) (+) SetToBag({t2})
                /\ t2.url = t.url
                /\ t2.quality = t.quality]_vars

\* C4 witness: two requests for the same url and quality, both tasks running
C4_Witness ==
    \E t \in BagToSet(tasks) :
        /\ CopiesIn(t, tasks) = 2
        /\ t.pc = "dir_ok"
        /\ CopiesIn([request |-> [route |-> "/download", url |-> SomeStr(t.url),
                                  quality |-> SomeStr(t.quality)],
                     response |-> [status |-> 200, body |-> download_video_body]],
                    served) = 2

Recognized == {"2160", "1080", "720", "480"}

IsRecognized(tok) == tok.some /\ tok.v \in Recognized

\* C5: over the calls made, the expressions of the four recognized tokens are
\* pairwise distinct, a token always gets the same expression, and every other
\* input (the empty string, None, any other string) gets the expression of "1080".
C5_QualityResolver ==
    \A r \in resolved, r2 \in resolved :
        /\ (r.token = r2.token) => (r.expr = r2.expr)
        /\ (IsRecognized(r.token) /\ IsRecognized(r2.token) /\ r.token # r2.token)
              => r.expr # r2.expr
        /\ (~IsRecognized(r.token) /\ r2.token = SomeStr("1080")) => r.expr = r2.expr
        /\ r.expr # ""

C5_Witness ==
    /\ \A tok \in Tokens : \E r \in resolved : r.token = tok
    /\ \E r \in resolved : r.token = NoneStr /\ r.expr = Expr1080

InfoFailed == request.route = "/info" /\ request.url.some /\ meta_result.raises

InfoSucceeded == request.route = "/info" /\ request.url.some /\ ~meta_result.raises

\* C6 as stated: when the metadata extraction fails, /info answers HTTP 200 with
\* {success: false, message} and the message is non-empty.
C6_Original ==
    InfoFailed =>
        /\ response.status = 200
        /\ DOMAIN response.body = {"success", "message"}
        /\ response.body.success = FALSE
        /\ response.body.message # ""

\* C6 amended: when the metadata extraction raises an exception, /info answers
\* HTTP 200 with {success: false, message} where message is the exception's
\* string, so it is non-empty exactly when that string is.
C6_FailureBody ==
    InfoFailed =>
        /\ response.status = 200
        /\ DOMAIN response.body = {"success", "message"}
        /\ response.body.success = FALSE
        /\ response.body.message = meta_result.err

C6_Witness ==
    /\ InfoFailed
    /\ response.body.message = "ERROR: Video unavailable"

HasHeight(f) == f.height.some
HasNonZeroHeight(f) == f.height.some /\ f.height.v # 0
IsMp4(f) == f.ext.some /\ f.ext.v = "mp4"

Listed(entries) ==
    [i \in 1..Len(entries) |->
        [height |-> entries[i].height, format_id |-> entries[i].format_id]]

\* C7 as stated: the formats of a successful /info are the metadata entries that
\* specify a height and are mp4, in order, each with a non-empty format_id.
C7_Original ==
    InfoSucceeded =>
        /\ response.body.formats =
              Listed(SelectSeq(meta_result.info.formats.v,
                               LAMBDA f : HasHeight(f) /\ IsMp4(f)))
        /\ \A i \in 1..Len(response.body.formats) :
              /\ response.body.formats[i].format_id.some
              /\ response.body.formats[i].format_id.v # ""

\* C7 amended: the formats of a successful /info are the metadata entries whose
\* height is present and not 0 and whose container is mp4, in the metadata's
\* order, each with the entry's height and the entry's format_id (None when the
\* entry has none); no other entry is listed.
C7_FormatsFiltered ==
    InfoSucceeded =>
        /\ response.status = 200
        /\ response.body.success = TRUE
        /\ response.body.formats =
              Listed(SelectSeq(meta_result.info.formats.v,
                               LAMBDA f : HasNonZeroHeight(f) /\ IsMp4(f)))

\* C7 witness: of a webm entry and two mp4 entries with heights, the two mp4
\* entries are listed, in the metadata's order
C7_Witness ==
    /\ InfoSucceeded
    /\ Len(meta_result.info.formats.v) = 3
    /\ meta_result.info.formats.v[1].ext = SomeStr("webm")
    /\ meta_result.info.formats.v[1].height = SomeInt(720)
    /\ response.body.formats =
          <<[height |-> SomeInt(360), format_id |-> SomeStr("137")],
            [height |-> SomeInt(720), format_id |-> SomeStr("137")]>>

MissingUrl == request.route \in {"/info", "/download"} /\ ~request.url.some

\* C8: a /info or /download request without url gets a client-error response
\* from the routing layer: no handler runs, the collaborator is not invoked
\* and no task is added.
C8_MissingUrlRejected ==
    MissingUrl =>
        /\ response.status \in 400..499
        /\ effects.handler = ""
        /\ ~effects.collab_invoked
        /\ ~effects.task_added

C8_Witness ==
    /\ MissingUrl
    /\ request.route = "/download"
    /\ response.status = 422
    /\ BagCardinality(tasks) = 1

\* C9: /status answers success: true with the configured, non-empty output
\* directory, whether or not the directory exists; no step changes the
\* configured directory.
C9_Status ==
    /\ [](request.route = "/status" =>
            /\ response.status = 200
            /\ response.body.success = TRUE
            /\ response.body.download_folder = download_folder
            /\ response.body.download_folder # "")
    /\ [][download_folder' = download_folder]_vars

\* C9 witness: /status answered after a task failed to create the directory
C9_Witness ==
    /\ request.route = "/status"
    /\ response.body.success = TRUE
    /\ ~dir_exists
    /\ \E t \in BagToSet(tasks) : t.pc = "raised"

ExpectedQuality(q) == IF q.some THEN q.v ELSE "1080"

\* C10: the task of a /download request carries the request's own quality,
\* "1080" when the parameter is omitted, and downloads with the expression of
\* that quality; a quality outside the four recognized ones does not fail the
\* request and its task downloads with the "1080" expression.
C10_QualityOfTheRequest ==
    /\ \A u \in URLs, q \in QualityParams :
          Count(served, LAMBDA s : s.request.url = SomeStr(u) /\ s.request.quality = q)
              = Count(tasks, LAMBDA t : t.url = u /\ t.quality = ExpectedQuality(q))
    /\ \A t \in BagToSet(tasks) :
          t.pc = "returned" =>
              /\ t.opts.format = get_quality_format(SomeStr(t.quality))
              /\ t.quality \notin Recognized => t.opts.format = Expr1080
              /\ t.quality = "720" => t.opts.format = Expr720
    /\ \A s \in BagToSet(served) : IsAck(s.response)

C10_Witness ==
    /\ \E t \in BagToSet(tasks) :
          t.quality = "4k" /\ t.pc = "returned" /\ t.opts.format = Expr1080
    /\ \E t \in BagToSet(tasks) :
          t.quality = "1080" /\ t.pc = "returned" /\ t.opts.format = Expr1080
    /\ \E s \in BagToSet(served) : s.request.quality = NoneStr
    /\ \E s \in BagToSet(served) : s.request.quality = SomeStr("4k")

====
